---- MODULE Spec2Model ----
(***************************************************************************)
(* Booking conflict and lifecycle engine of the studio booking assistant:  *)
(* the handlers of the booking controller (listing, createBooking,         *)
(* updateBooking, deleteBooking, confirmBooking, cancelBooking) over the   *)
(* booking store, the client's bookings slice, and the password reset      *)
(* handlers of the auth controller.                                        *)
(***************************************************************************)
EXTENDS Integers, Sequences, FiniteSets, TLC

VARIABLES bookings, nextId, now, resp, inflight, sent,
          slice, thunks, accounts, clock, accepted

\* the client's bookings slice and its thunks
sliceVars == <<slice, thunks>>

\* the user accounts, the wall clock in seconds, and the reset tokens that
\* resetPassword has accepted so far
authVars == <<accounts, clock, accepted>>

vars == <<bookings, nextId, now, resp, inflight, sent, sliceVars, authVars>>

(* ------------------------------ bounds --------------------------------- *)

\* number of bookings ever inserted under Spec (ids are never reused)
MaxIds == 1
\* number of bookings ever inserted under ConflictSpec
MaxConflictIds == 2
\* number of bookings ever inserted under WindowSpec
MaxWindowIds == 2
\* time slots 0..MaxTime; a slot is SlotMs milliseconds
MaxTime == 2
\* number of cancellations (each reads a later Date.now())
MaxClock == 2
\* number of concurrent createBooking requests in the interleaved specification
MaxReqs == 2
\* number of thunks the client dispatches
MaxThunks == 2
\* booking ids the client's thunks name
MaxSliceIds == 1
\* hours of wall-clock time the password reset requests span
MaxHours == 1

(* ----------------------------- directory ------------------------------- *)

Users == {"alice", "olga", "sam", "stan"}

userType == [u \in Users |->
               IF u = "olga" THEN "studio_owner"
               ELSE IF u \in {"sam", "stan"} THEN "staff" ELSE "musician"]

Studios == {"st1", "st2"}

StudioOwner == [s \in Studios |-> "olga"]

Rooms == {"r1", "r2"}

RoomStudio == [r \in Rooms |-> "st1"]

\* hourly_rate decimal(10,2), held in cents
HourlyRate == [r \in Rooms |-> IF r = "r1" THEN 50 * 100 ELSE 30 * 100]

EquipmentItems == {"e1"}

StaffRecords == {"s1", "s2"}

StaffUser == [s \in StaffRecords |-> IF s = "s1" THEN "sam" ELSE "stan"]

StaffStudio == [s \in StaffRecords |-> IF s = "s1" THEN "st1" ELSE "st2"]

Statuses == {"pending", "confirmed", "cancelled", "completed"}

\* the controller requires Booking, Room, Equipment and User only; Staff and
\* Studio are never declared, so evaluating either name throws a
\* ReferenceError that the handler's catch turns into a 500
StaffModelDefined == FALSE

(* ------------------------------ helpers -------------------------------- *)

Range(s) == {s[i] : i \in 1..Len(s)}

Times == 0..MaxTime

SlotMs == 30 * 60 * 1000

\* new Date(t) for the slot t, in milliseconds
DateOf(t) == t * SlotMs

Response(status, message) == [status |-> status, message |-> message]

\* the $or of the availability query: the stored window [bs, be) against the
\* requested window [s, e)
WindowQuery(bs, be, s, e) ==
    \/ (bs <= s /\ be > s)
    \/ (bs < e /\ be >= e)
    \/ (bs >= s /\ be <= e)

RoomConflict(store, roomId, s, e) ==
    \E id \in DOMAIN store :
        /\ store[id].room = roomId
        /\ store[id].status # "cancelled"
        /\ WindowQuery(DateOf(store[id].startTime), DateOf(store[id].endTime),
                       DateOf(s), DateOf(e))

EquipmentConflict(store, equipId, s, e) ==
    \E id \in DOMAIN store :
        /\ equipId \in Range(store[id].equipment)
        /\ store[id].status # "cancelled"
        /\ WindowQuery(DateOf(store[id].startTime), DateOf(store[id].endTime),
                       DateOf(s), DateOf(e))

StaffConflict(store, staffId, s, e) ==
    \E id \in DOMAIN store :
        /\ staffId \in Range(store[id].staff)
        /\ store[id].status # "cancelled"
        /\ WindowQuery(DateOf(store[id].startTime), DateOf(store[id].endTime),
                       DateOf(s), DateOf(e))

\* Model.find({ _id: { $in: ids } }).length
FoundCount(existing, ids) == Cardinality({x \in existing : x \in Range(ids)})

\* room.hourlyRate * ((endDate - startDate) / (1000 * 60 * 60)), in cents; the
\* division by 1000 is taken first to stay within 32-bit integers, and every
\* window is a whole number of seconds
TotalAmount(roomId, s, e) ==
    (HourlyRate[roomId] * ((DateOf(e) - DateOf(s)) \div 1000)) \div (60 * 60)

(* --------------------------- request bodies ---------------------------- *)

\* an optional body field: <<>> when absent, <<v>> when present
Absent == <<>>

Present(f) == Len(f) > 0

\* JavaScript truthiness of an optional string field ("" is falsy)
TruthyString(f) == Present(f) /\ f[1] # ""

\* JavaScript truthiness of an optional array field ([] is truthy)
TruthyArray(f) == Present(f)

CreateBody(roomId, s, e, equipmentIds, staffIds, notes, extraStatus, extraClient) ==
    [roomId |-> roomId, startTime |-> s, endTime |-> e,
     equipmentIds |-> equipmentIds, staffIds |-> staffIds, notes |-> notes,
     status |-> extraStatus, client |-> extraClient]

\* bodies over every window, room and equipment choice
WindowBodies ==
    {CreateBody(r, s, e, eq, <<>>, "", "", "") :
        r \in Rooms, s \in Times, e \in Times, eq \in {<<>>, <<"e1">>}}

\* bodies that exercise the validators, the directory look-ups, the staff
\* list and fields the handler does not read
LookupBodies ==
    {CreateBody(r, 0, 1, eq, st, "", x[1], x[2]) :
        r \in {"", "r404", "r1"},
        eq \in {<<>>, <<"e1">>, <<"e1", "e1">>, <<"e404">>},
        st \in {<<>>, <<"s1">>},
        x \in {<<"", "">>, <<"confirmed", "olga">>}}

UpdateBodies ==
    [notes : {Absent, <<"n">>},
     equipmentIds : {Absent, <<(<<>>)>>, <<(<<"e1">>)>>},
     status : {Absent} \cup {<<s>> : s \in Statuses},
     staffIds : {Absent, <<(<<"s1">>)>>}]

CancelBodies == [reason : {Absent, <<"r">>}]

BookingIds == 1..MaxConflictIds

(* ---------------------------- createBooking ---------------------------- *)

Pass == Response(0, "pass")

\* validationResult(req) of the route's validators, then the look-ups and the
\* availability queries up to the point where the booking is built
CreateChecks(store, body) ==
    IF body.roomId = ""
    THEN Response(400, "Room ID is required")
    ELSE IF body.roomId \notin Rooms
    THEN Response(404, "Room not found")
    ELSE IF RoomConflict(store, body.roomId, body.startTime, body.endTime)
    THEN Response(400, "Room is not available for the requested time")
    ELSE IF /\ Len(body.equipmentIds) > 0
            /\ FoundCount(EquipmentItems, body.equipmentIds) # Len(body.equipmentIds)
    THEN Response(400, "One or more equipment items not found")
    ELSE IF /\ Len(body.equipmentIds) > 0
            /\ \E i \in 1..Len(body.equipmentIds) :
                  EquipmentConflict(store, body.equipmentIds[i],
                                    body.startTime, body.endTime)
    THEN Response(400, "Equipment is not available for the requested time")
    ELSE IF Len(body.staffIds) > 0 /\ ~StaffModelDefined
    THEN Response(500, "Server error")
    ELSE IF /\ Len(body.staffIds) > 0
            /\ FoundCount(StaffRecords, body.staffIds) # Len(body.staffIds)
    THEN Response(400, "One or more staff members not found")
    ELSE IF /\ Len(body.staffIds) > 0
            /\ \E i \in 1..Len(body.staffIds) :
                  StaffConflict(store, body.staffIds[i],
                                body.startTime, body.endTime)
    THEN Response(400, "Staff member is not available for the requested time")
    ELSE Pass

\* a handler that spreads the request body over the document: status and
\* client are taken from the body when it carries them
NewBookingFromBody(actor, body) ==
    [room |-> body.roomId,
     client |-> IF body.client # "" THEN body.client ELSE actor,
     startTime |-> body.startTime,
     endTime |-> body.endTime,
     equipment |-> body.equipmentIds,
     staff |-> body.staffIds,
     totalAmount |-> TotalAmount(body.roomId, body.startTime, body.endTime),
     notes |-> body.notes,
     status |-> IF body.status # "" THEN body.status ELSE "pending",
     cancellationReason |-> "",
     cancelledBy |-> "",
     cancelledAt |-> <<>>]

\* new Booking({...}) as the handler fills it
NewBooking(actor, body) ==
    [room |-> body.roomId,
     client |-> actor,
     startTime |-> body.startTime,
     endTime |-> body.endTime,
     equipment |-> body.equipmentIds,
     staff |-> body.staffIds,
     totalAmount |-> TotalAmount(body.roomId, body.startTime, body.endTime),
     notes |-> body.notes,
     status |-> "pending",
     cancellationReason |-> "",
     cancelledBy |-> "",
     cancelledAt |-> <<>>]

\* booking.save() of a new document
Insert(store, id, doc) == [i \in DOMAIN store \cup {id} |-> IF i = id THEN doc ELSE store[i]]

\* what follows booking.save(): the owner look-up and sendEmail, either of
\* which may throw into the handler's catch
AfterSave(notifyOk, okStatus) ==
    IF notifyOk THEN Response(okStatus, "ok") ELSE Response(500, "Server error")

\* sendEmail({ to, subject, ... })
Mail(to, subject) == [to |-> to, subject |-> subject]

\* the mails the last request delivered
NoMail == <<>>

\* the look-up of the addressee and sendEmail either both succeed or throw
Delivered(notifyOk, mail) == IF notifyOk THEN <<mail>> ELSE NoMail

\* the answer of a request together with the mails it delivered
Reply(r, mails) == resp' = r /\ sent' = mails

\* to the owner of the room's studio, after createBooking saved
NewBookingMail(roomId) == Mail(StudioOwner[RoomStudio[roomId]], "New Booking Request")

\* a handler that takes the saved booking back when the notification fails
createBookingRollback(actor, body, notifyOk) ==
    LET r == CreateChecks(bookings, body) IN
    IF r # Pass
    THEN /\ Reply(r, NoMail)
         /\ UNCHANGED <<bookings, nextId, now, inflight>>
    ELSE /\ bookings' = IF notifyOk THEN Insert(bookings, nextId, NewBooking(actor, body))
                                    ELSE bookings
         /\ nextId' = nextId + 1
         /\ Reply(AfterSave(notifyOk, 201), Delivered(notifyOk, NewBookingMail(body.roomId)))
         /\ UNCHANGED <<now, inflight>>

createBooking(actor, body, notifyOk) ==
    LET r == CreateChecks(bookings, body) IN
    IF r # Pass
    THEN /\ Reply(r, NoMail)
         /\ UNCHANGED <<bookings, nextId, now, inflight>>
    ELSE /\ bookings' = Insert(bookings, nextId, NewBooking(actor, body))
         /\ nextId' = nextId + 1
         /\ Reply(AfterSave(notifyOk, 201), Delivered(notifyOk, NewBookingMail(body.roomId)))
         /\ UNCHANGED <<now, inflight>>

(* ---------------------------- authorization ---------------------------- *)

IsClient(b, actor) == b.client = actor

IsStudioOwner(b, actor) == StudioOwner[RoomStudio[b.room]] = actor

\* Staff.exists({ user, studio })
StaffExists(actor, studio) ==
    \E s \in StaffRecords : StaffUser[s] = actor /\ StaffStudio[s] = studio

\* req.user.userType === 'staff' && await Staff.exists(...): the right-hand
\* side is evaluated for staff users only, and throws while Staff is undeclared
StaffLookupThrows(actor) == userType[actor] = "staff" /\ ~StaffModelDefined

IsStaff(b, actor) ==
    userType[actor] = "staff" /\ StaffExists(actor, RoomStudio[b.room])

\* authorize(...roles) of the auth middleware
Authorize(roles, actor) == userType[actor] \in roles

(* ---------------------------- getBookingById --------------------------- *)

getBookingById(actor, id) ==
    /\ UNCHANGED <<bookings, nextId, now, inflight>>
    /\ IF id \notin DOMAIN bookings
       THEN Reply(Response(404, "Booking not found"), NoMail)
       ELSE LET b == bookings[id] IN
            IF StaffLookupThrows(actor)
            THEN Reply(Response(500, "Server error"), NoMail)
            ELSE IF ~IsClient(b, actor) /\ ~IsStudioOwner(b, actor) /\ ~IsStaff(b, actor)
            THEN Reply(Response(403, "Not authorized to access this booking"), NoMail)
            ELSE Reply(Response(200, "ok"), NoMail)

(* --------------------- getAllBookings, getUserBookings ----------------- *)

\* the controller requires Booking, Room, Equipment and User only: Studio is
\* an undeclared identifier, and reading it throws into the handler's catch
StudioModelDefined == FALSE

\* Studio.find({ owner }) then Room.find({ studio: { $in: studioIds } })
OwnedRooms(actor) == {r \in Rooms : StudioOwner[RoomStudio[r]] = actor}

\* Staff.findOne({ user }).studio then Room.find({ studio })
StaffRooms(actor) ==
    {r \in Rooms : \E s \in StaffRecords : StaffUser[s] = actor /\ StaffStudio[s] = RoomStudio[r]}

\* Booking.find(query).sort({ startTime: 1 }): the ids of the selected
\* bookings, earliest start first (equal starts in id order)
RECURSIVE SortedByStart(_, _)
SortedByStart(store, ids) ==
    IF ids = {} THEN <<>>
    ELSE LET first == CHOOSE i \in ids :
                          \A j \in ids :
                              \/ store[i].startTime < store[j].startTime
                              \/ store[i].startTime = store[j].startTime /\ i <= j
         IN  <<first>> \o SortedByStart(store, ids \ {first})

\* res.json(bookings)
ListResponse(ids) == [status |-> 200, message |-> "ok", bookings |-> ids]

getAllBookings(actor) ==
    /\ UNCHANGED <<bookings, nextId, now, inflight>>
    /\ IF userType[actor] = "studio_owner" /\ ~StudioModelDefined
       THEN Reply(Response(500, "Server error"), NoMail)
       ELSE IF userType[actor] = "staff" /\ ~StaffModelDefined
       THEN Reply(Response(500, "Server error"), NoMail)
       ELSE IF userType[actor] = "staff" /\ ~\E s \in StaffRecords : StaffUser[s] = actor
       THEN Reply(Response(404, "Staff record not found"), NoMail)
       ELSE LET hits == IF userType[actor] = "studio_owner"
                        THEN {id \in DOMAIN bookings : bookings[id].room \in OwnedRooms(actor)}
                        ELSE IF userType[actor] = "staff"
                        THEN {id \in DOMAIN bookings : bookings[id].room \in StaffRooms(actor)}
                        ELSE DOMAIN bookings   \* query stays {}
            IN  Reply(ListResponse(SortedByStart(bookings, hits)), NoMail)

getUserBookings(actor) ==
    IF userType[actor] = "musician"
    THEN /\ UNCHANGED <<bookings, nextId, now, inflight>>
         /\ LET hits == {id \in DOMAIN bookings : bookings[id].client = actor}
            IN  Reply(ListResponse(SortedByStart(bookings, hits)), NoMail)
    ELSE getAllBookings(actor)

(* ---------------------------- updateBooking ---------------------------- *)

\* if (status && status !== booking.status), read after booking.status = status
StatusNotice(body, saved) == TruthyString(body.status) /\ body.status[1] # saved.status

UpdatedMail(b, body) ==
    Mail(b.client, IF body.status[1] = "confirmed" THEN "Booking Confirmed"
                                                   ELSE "Booking Updated")

ConfirmedMail(b) == Mail(b.client, "Booking Confirmed")

\* to the client when the owner or staff cancelled, to the owner when the
\* client did
CancelledMail(b, actor) ==
    IF b.client = actor
    THEN Mail(StudioOwner[RoomStudio[b.room]], "Booking Cancelled by Client")
    ELSE Mail(b.client, "Booking Cancelled")

\* a client branch that also honours a status sent by the client
ClientUpdateWithStatus(b, body) ==
    [b EXCEPT !.notes = IF TruthyString(body.notes) THEN body.notes[1] ELSE @,
              !.equipment = IF TruthyArray(body.equipmentIds)
                            THEN body.equipmentIds[1] ELSE @,
              !.status = IF TruthyString(body.status) THEN body.status[1] ELSE @]

ClientUpdate(b, body) ==
    [b EXCEPT !.notes = IF TruthyString(body.notes) THEN body.notes[1] ELSE @,
              !.equipment = IF TruthyArray(body.equipmentIds)
                            THEN body.equipmentIds[1] ELSE @]

OwnerUpdate(b, body) ==
    [b EXCEPT !.status = IF TruthyString(body.status) THEN body.status[1] ELSE @,
              !.staff = IF TruthyArray(body.staffIds) THEN body.staffIds[1] ELSE @,
              !.notes = IF TruthyString(body.notes) THEN body.notes[1] ELSE @]

updateBooking(actor, id, body) ==
    /\ UNCHANGED <<nextId, now, inflight>>
    /\ IF id \notin DOMAIN bookings
       THEN /\ Reply(Response(404, "Booking not found"), NoMail)
            /\ UNCHANGED bookings
       ELSE LET b == bookings[id] IN
            IF StaffLookupThrows(actor)
            THEN /\ Reply(Response(500, "Server error"), NoMail)
                 /\ UNCHANGED bookings
            ELSE IF ~IsClient(b, actor) /\ ~IsStudioOwner(b, actor) /\ ~IsStaff(b, actor)
            THEN /\ Reply(Response(403, "Not authorized to update this booking"), NoMail)
                 /\ UNCHANGED bookings
            ELSE IF IsClient(b, actor)
            THEN IF b.status # "pending"
                 THEN /\ Reply(Response(400, "Cannot update a confirmed or cancelled booking"), NoMail)
                      /\ UNCHANGED bookings
                 ELSE /\ bookings' = [bookings EXCEPT ![id] = ClientUpdate(b, body)]
                      /\ Reply(Response(200, "ok"), NoMail)
            ELSE \* the notification is guarded by status !== booking.status,
                 \* read after booking.status = status: it is never sent
                 /\ bookings' = [bookings EXCEPT ![id] = OwnerUpdate(b, body)]
                 /\ IF StatusNotice(body, OwnerUpdate(b, body))
                    THEN \E notifyOk \in BOOLEAN :
                            Reply(AfterSave(notifyOk, 200),
                                  Delivered(notifyOk, UpdatedMail(b, body)))
                    ELSE Reply(Response(200, "ok"), NoMail)

(* ---------------------------- deleteBooking ---------------------------- *)

\* a guard that never blocks: a client may delete whatever the status
DeleteBlockedNever(b, actor) == FALSE

\* isClient && booking.status !== 'pending'
DeleteBlocked(b, actor) == IsClient(b, actor) /\ b.status # "pending"

\* booking.remove()
Remove(store, id) == [i \in DOMAIN store \ {id} |-> store[i]]

deleteBooking(actor, id) ==
    /\ UNCHANGED <<nextId, now, inflight>>
    /\ IF id \notin DOMAIN bookings
       THEN /\ Reply(Response(404, "Booking not found"), NoMail)
            /\ UNCHANGED bookings
       ELSE LET b == bookings[id] IN
            IF StaffLookupThrows(actor)
            THEN /\ Reply(Response(500, "Server error"), NoMail)
                 /\ UNCHANGED bookings
            ELSE IF ~IsClient(b, actor) /\ ~IsStudioOwner(b, actor) /\ ~IsStaff(b, actor)
            THEN /\ Reply(Response(403, "Not authorized to delete this booking"), NoMail)
                 /\ UNCHANGED bookings
            ELSE IF DeleteBlocked(b, actor)
            THEN /\ Reply(Response(400, "Cannot delete a confirmed booking. Please use cancel instead."), NoMail)
                 /\ UNCHANGED bookings
            ELSE /\ bookings' = Remove(bookings, id)
                 /\ Reply(Response(200, "Booking deleted successfully"), NoMail)

(* ---------------------------- confirmBooking --------------------------- *)

Confirmed(b) == [b EXCEPT !.status = "confirmed"]

confirmBooking(actor, id, notifyOk) ==
    /\ UNCHANGED <<nextId, now, inflight>>
    /\ IF ~Authorize({"studio_owner", "staff"}, actor)
       THEN /\ Reply(Response(403, "User role is not authorized to access this route"), NoMail)
            /\ UNCHANGED bookings
       ELSE IF id \notin DOMAIN bookings
       THEN /\ Reply(Response(404, "Booking not found"), NoMail)
            /\ UNCHANGED bookings
       ELSE LET b == bookings[id] IN
            IF StaffLookupThrows(actor)
            THEN /\ Reply(Response(500, "Server error"), NoMail)
                 /\ UNCHANGED bookings
            ELSE IF ~IsStudioOwner(b, actor) /\ ~IsStaff(b, actor)
            THEN /\ Reply(Response(403, "Not authorized to confirm this booking"), NoMail)
                 /\ UNCHANGED bookings
            ELSE /\ bookings' = [bookings EXCEPT ![id] = Confirmed(b)]
                 /\ Reply(AfterSave(notifyOk, 200), Delivered(notifyOk, ConfirmedMail(b)))

(* ---------------------------- cancelBooking ---------------------------- *)

\* a cancellation that also zeroes the amount due
CancelledRefund(b, actor, body, t) ==
    [b EXCEPT !.status = "cancelled",
              !.cancellationReason = IF TruthyString(body.reason)
                                     THEN body.reason[1] ELSE "No reason provided",
              !.cancelledBy = actor,
              !.cancelledAt = <<t>>,
              !.totalAmount = 0]

Cancelled(b, actor, body, t) ==
    [b EXCEPT !.status = "cancelled",
              !.cancellationReason = IF TruthyString(body.reason)
                                     THEN body.reason[1] ELSE "No reason provided",
              !.cancelledBy = actor,
              !.cancelledAt = <<t>>]

cancelBooking(actor, id, body, notifyOk) ==
    /\ UNCHANGED <<nextId, inflight>>
    /\ IF id \notin DOMAIN bookings
       THEN /\ Reply(Response(404, "Booking not found"), NoMail)
            /\ UNCHANGED <<bookings, now>>
       ELSE LET b == bookings[id] IN
            IF StaffLookupThrows(actor)
            THEN /\ Reply(Response(500, "Server error"), NoMail)
                 /\ UNCHANGED <<bookings, now>>
            ELSE IF ~IsClient(b, actor) /\ ~IsStudioOwner(b, actor) /\ ~IsStaff(b, actor)
            THEN /\ Reply(Response(403, "Not authorized to cancel this booking"), NoMail)
                 /\ UNCHANGED <<bookings, now>>
            ELSE /\ now <= MaxClock
                 /\ bookings' = [bookings EXCEPT ![id] = Cancelled(b, actor, body, now)]
                 /\ now' = now + 1
                 /\ Reply(AfterSave(notifyOk, 200), Delivered(notifyOk, CancelledMail(b, actor)))

(* ------------------------- client bookings slice ----------------------- *)

ThunkTypes ==
    {"fetchBookings", "fetchBookingById", "createBooking", "updateBooking", "deleteBooking"}

\* the thunks that take a booking id
IdThunks == {"fetchBookingById", "updateBooking", "deleteBooking"}

SliceIds == 1..MaxSliceIds

\* a booking as the server returns it; only its id matters to the reducers
ClientBooking(i) == [id |-> i]

initialState ==
    [bookings |-> <<>>, selectedBooking |-> Absent, isLoading |-> FALSE, error |-> Absent]

\* action.payload?.message || 'Failed to ...'
DefaultError ==
    [ty \in ThunkTypes |->
        CASE ty = "fetchBookings" -> "Failed to fetch bookings"
          [] ty = "fetchBookingById" -> "Failed to fetch booking"
          [] ty = "createBooking" -> "Failed to create booking"
          [] ty = "updateBooking" -> "Failed to update booking"
          [] ty = "deleteBooking" -> "Failed to delete booking"]

\* .addCase(<thunk>.pending, ...), the same for the five thunks
pendingReducer(state) == [state EXCEPT !.isLoading = TRUE, !.error = Absent]

\* state.bookings.findIndex((booking) => booking.id === id), 0 for -1
FindIndex(list, id) ==
    IF \E i \in DOMAIN list : list[i].id = id
    THEN CHOOSE i \in DOMAIN list :
             list[i].id = id /\ \A j \in DOMAIN list : list[j].id = id => i <= j
    ELSE 0

\* state.bookings.filter((booking) => booking.id !== id)
RECURSIVE FilterOut(_, _)
FilterOut(list, id) ==
    IF list = <<>> THEN <<>>
    ELSE IF Head(list).id = id THEN FilterOut(Tail(list), id)
    ELSE <<Head(list)>> \o FilterOut(Tail(list), id)

\* .addCase(<thunk>.fulfilled, ...)
fulfilledReducer(ty, state, payload) ==
    CASE ty = "fetchBookings" ->
            [state EXCEPT !.isLoading = FALSE, !.bookings = payload]
      [] ty = "fetchBookingById" ->
            [state EXCEPT !.isLoading = FALSE, !.selectedBooking = <<payload>>]
      [] ty = "createBooking" ->
            [state EXCEPT !.isLoading = FALSE, !.bookings = Append(@, payload)]
      [] ty = "updateBooking" ->
            LET index == FindIndex(state.bookings, payload.id) IN
            [state EXCEPT !.isLoading = FALSE,
                          !.bookings = IF index # 0 THEN [@ EXCEPT ![index] = payload] ELSE @,
                          !.selectedBooking = <<payload>>]
      [] ty = "deleteBooking" ->
            [state EXCEPT !.isLoading = FALSE,
                          !.bookings = FilterOut(@, payload),
                          !.selectedBooking = IF Present(@) /\ @[1].id = payload
                                              THEN Absent ELSE @]

\* .addCase(<thunk>.rejected, ...)
rejectedReducer(ty, state, message) ==
    [state EXCEPT !.isLoading = FALSE,
                  !.error = <<IF TruthyString(message) THEN message[1] ELSE DefaultError[ty]>>]

\* what the server's answer carries for a thunk
FulfilledPayloads(thunk) ==
    CASE thunk.type = "fetchBookings" -> {<<>>} \cup {<<ClientBooking(i)>> : i \in SliceIds}
      [] thunk.type = "createBooking" -> {ClientBooking(i) : i \in SliceIds}
      [] thunk.type \in {"fetchBookingById", "updateBooking"} -> {ClientBooking(thunk.arg)}
      [] thunk.type = "deleteBooking" -> {thunk.arg}

\* dispatch(thunk(arg)): the pending action is reduced at once
dispatch(ty, arg) ==
    /\ Len(thunks) < MaxThunks
    /\ thunks' = Append(thunks, [type |-> ty, arg |-> arg, status |-> "pending"])
    /\ slice' = pendingReducer(slice)

\* the request of thunk i returns
settleFulfilled(i, payload) ==
    /\ thunks[i].status = "pending"
    /\ thunks' = [thunks EXCEPT ![i].status = "fulfilled"]
    /\ slice' = fulfilledReducer(thunks[i].type, slice, payload)

\* the request of thunk i fails: rejectWithValue(error.response.data)
settleRejected(i, message) ==
    /\ thunks[i].status = "pending"
    /\ thunks' = [thunks EXCEPT ![i].status = "rejected"]
    /\ slice' = rejectedReducer(thunks[i].type, slice, message)

clearBookingError == slice' = [slice EXCEPT !.error = Absent] /\ UNCHANGED thunks

clearSelectedBooking == slice' = [slice EXCEPT !.selectedBooking = Absent] /\ UNCHANGED thunks

(* --------------------- forgotPassword, resetPassword ------------------- *)

\* expiresIn: '1h' and Date.now() + 3600000, in seconds
Hour == 3600

\* body('password').isLength({ min: 6 })
MinPasswordLength == 6

\* jwt.sign({ id }, JWT_SECRET, { expiresIn: '1h' }): the token is determined
\* by the user id and the second it is issued in (iat); exp = iat + 1h
Token(u, iat) == [id |-> u, iat |-> iat, exp |-> iat + Hour, signed |-> TRUE]

\* a token that does not carry the server's signature
Unsigned(tok) == [tok EXCEPT !.signed = FALSE]

Passwords == {"pw", "secret1"}

PasswordLength == [pw \in Passwords |-> IF pw = "pw" THEN 2 ELSE 7]

\* bcrypt.hash(password, salt); the salt is left out
Hash(pw) == <<"bcrypt", pw>>

\* a user document with no reset pending
NoReset(hash) ==
    [password |-> hash, resetPasswordToken |-> Absent, resetPasswordExpires |-> Absent]

\* the instants requests are made at: the first two seconds of every hour
Instants == {h * Hour + d : h \in 0..MaxHours, d \in {0, 1}}

\* User.findOne({ email }): the address of a user is the user's name
FindByEmail(email) == {u \in Users : u = email}

forgotPassword(email, mailOk) ==
    IF email = ""
    THEN /\ Reply(Response(400, "Please include a valid email"), NoMail)
         /\ UNCHANGED accounts
    ELSE IF FindByEmail(email) = {}
    THEN /\ Reply(Response(404, "User not found"), NoMail)
         /\ UNCHANGED accounts
    ELSE LET u == CHOOSE x \in FindByEmail(email) : TRUE IN
         /\ accounts' = [accounts EXCEPT ![u].resetPasswordToken = <<Token(u, clock)>>,
                                         ![u].resetPasswordExpires = <<clock + Hour>>]
         /\ Reply(IF mailOk THEN Response(200, "Password reset email sent")
                            ELSE Response(500, "Server error"),
                  Delivered(mailOk, Mail(u, "Password Reset")))

\* User.findOne({ _id, resetPasswordToken: token, resetPasswordExpires: { $gt: now } })
FindByToken(tok) ==
    {u \in Users : /\ u = tok.id
                   /\ accounts[u].resetPasswordToken = <<tok>>
                   /\ accounts[u].resetPasswordExpires[1] > clock}

resetPassword(token, password) ==
    IF ~Present(token)
    THEN /\ Reply(Response(400, "Token is required"), NoMail)
         /\ UNCHANGED <<accounts, accepted>>
    ELSE IF PasswordLength[password] < MinPasswordLength
    THEN /\ Reply(Response(400, "Password must be at least 6 characters"), NoMail)
         /\ UNCHANGED <<accounts, accepted>>
    ELSE IF ~token[1].signed
    THEN /\ Reply(Response(400, "Invalid token"), NoMail)      \* JsonWebTokenError
         /\ UNCHANGED <<accounts, accepted>>
    ELSE IF clock >= token[1].exp
    THEN /\ Reply(Response(500, "Server error"), NoMail)       \* TokenExpiredError
         /\ UNCHANGED <<accounts, accepted>>
    ELSE IF FindByToken(token[1]) = {}
    THEN /\ Reply(Response(400, "Invalid or expired token"), NoMail)
         /\ UNCHANGED <<accounts, accepted>>
    ELSE LET u == CHOOSE x \in FindByToken(token[1]) : TRUE IN
         /\ accounts' = [accounts EXCEPT ![u] = NoReset(Hash(password))]
         /\ accepted' = accepted \cup {token[1]}
         /\ Reply(Response(200, "ok"), NoMail)

(* ---------------------------- specification ---------------------------- *)

Init ==
    /\ bookings = <<>>
    /\ nextId = 1
    /\ now = 1
    /\ resp = Response(0, "none")
    /\ inflight = <<>>
    /\ sent = NoMail
    /\ slice = initialState
    /\ thunks = <<>>
    /\ accounts = [u \in Users |-> NoReset(Hash("old"))]
    /\ clock = 0
    /\ accepted = {}

\* requests drawn from the given actors and bodies; at most cap bookings are
\* ever inserted
CreateOver(actors, bodies, cap) ==
    \E actor \in actors, body \in bodies, notifyOk \in BOOLEAN :
        /\ CreateChecks(bookings, body) = Pass => nextId <= cap
        /\ createBooking(actor, body, notifyOk)
        /\ UNCHANGED <<sliceVars, authVars>>

UpdateOver(actors, bodies) ==
    \E actor \in actors, id \in BookingIds, body \in bodies :
        updateBooking(actor, id, body) /\ UNCHANGED <<sliceVars, authVars>>

DeleteOver(actors) ==
    \E actor \in actors, id \in BookingIds :
        deleteBooking(actor, id) /\ UNCHANGED <<sliceVars, authVars>>

ConfirmOver(actors) ==
    \E actor \in actors, id \in BookingIds, notifyOk \in BOOLEAN :
        confirmBooking(actor, id, notifyOk) /\ UNCHANGED <<sliceVars, authVars>>

CancelOver(actors, bodies) ==
    \E actor \in actors, id \in BookingIds, body \in bodies, notifyOk \in BOOLEAN :
        cancelBooking(actor, id, body, notifyOk) /\ UNCHANGED <<sliceVars, authVars>>

GetOver(actors) ==
    \E actor \in actors, id \in BookingIds :
        getBookingById(actor, id) /\ UNCHANGED <<sliceVars, authVars>>

GetAllOver(actors) ==
    \E actor \in actors : getAllBookings(actor) /\ UNCHANGED <<sliceVars, authVars>>

GetUserOver(actors) ==
    \E actor \in actors : getUserBookings(actor) /\ UNCHANGED <<sliceVars, authVars>>

Create == CreateOver(Users, LookupBodies, MaxIds)

GetAll == GetAllOver(Users)

GetUser == GetUserOver(Users)

Get == GetOver(Users)

Update == UpdateOver(Users, UpdateBodies)

Delete == DeleteOver(Users)

Confirm == ConfirmOver(Users)

Cancel == CancelOver(Users, CancelBodies)

Next ==
    Create \/ GetAll \/ GetUser \/ Get \/ Update \/ Delete \/ Confirm \/ Cancel

Spec == Init /\ [][Next]_vars

(* --------- two bookings, overlapping windows, shared resources --------- *)

ConflictActors == {"alice", "olga"}

ConflictBodies ==
    {CreateBody(r, w[1], w[2], eq, <<>>, "", "", "") :
        r \in Rooms, w \in {<<0, 2>>, <<1, 2>>}, eq \in {<<>>, <<"e1">>}}

ConflictUpdates ==
    [notes : {Absent},
     equipmentIds : {Absent, <<(<<"e1">>)>>},
     status : {Absent, <<"confirmed">>},
     staffIds : {Absent, <<(<<"s1">>)>>}]

ConflictCancels == [reason : {Absent}]

ConflictCreate == CreateOver({"alice"}, ConflictBodies, MaxConflictIds)

ConflictUpdate == UpdateOver(ConflictActors, ConflictUpdates)

ConflictDelete == DeleteOver(ConflictActors)

ConflictConfirm == ConfirmOver(ConflictActors)

ConflictCancel == CancelOver(ConflictActors, ConflictCancels)

ConflictNext ==
    ConflictCreate \/ ConflictUpdate \/ ConflictDelete \/ ConflictConfirm \/ ConflictCancel

ConflictSpec == Init /\ [][ConflictNext]_vars

(* ------------- one booking under every update request ------------------ *)

UpdateCreators == {"alice", "olga"}

UpdateCreateBodies ==
    {CreateBody("r1", 0, 1, eq, <<>>, "", "", "") : eq \in {<<>>, <<"e1">>}}

UpdateCreate == CreateOver(UpdateCreators, UpdateCreateBodies, MaxIds)

UpdateUpdate == UpdateOver(Users, UpdateBodies)

UpdateCancel == CancelOver(UpdateCreators, ConflictCancels)

UpdateNext == UpdateCreate \/ UpdateUpdate \/ UpdateCancel

UpdateSpec == Init /\ [][UpdateNext]_vars

(* ------------- createBooking over every window it accepts -------------- *)

WindowActors == {"alice"}

WindowCreate == CreateOver(WindowActors, WindowBodies, MaxWindowIds)

WindowCancel == CancelOver(WindowActors, ConflictCancels)

WindowNext == WindowCreate \/ WindowCancel

WindowSpec == Init /\ [][WindowNext]_vars

(* ------------- createBooking as two steps, interleaved ----------------- *)

RaceBodies ==
    {CreateBody("r1", w[1], w[2], <<>>, <<>>, "", "", "") :
        w \in {<<0, 1>>, <<0, 2>>, <<1, 2>>}}

\* the handler up to its last availability query: request r has read the store
createBookingQuery(r, actor, body) ==
    /\ r \notin DOMAIN inflight
    /\ LET res == CreateChecks(bookings, body) IN
       IF res # Pass
       THEN /\ Reply(res, NoMail)
            /\ inflight' = Insert(inflight, r, [pc |-> "done", actor |-> actor, body |-> body])
       ELSE /\ inflight' = Insert(inflight, r, [pc |-> "checked", actor |-> actor, body |-> body])
            /\ UNCHANGED <<resp, sent>>
    /\ UNCHANGED <<bookings, nextId, now>>

\* a save that re-runs the availability queries in the same transaction
createBookingSaveSerializable(r, notifyOk) ==
    /\ r \in DOMAIN inflight
    /\ inflight[r].pc = "checked"
    /\ inflight' = [inflight EXCEPT ![r].pc = "done"]
    /\ LET res == CreateChecks(bookings, inflight[r].body) IN
       IF res # Pass
       THEN /\ Reply(res, NoMail)
            /\ UNCHANGED <<bookings, nextId, now>>
       ELSE /\ bookings' = Insert(bookings, nextId,
                                  NewBooking(inflight[r].actor, inflight[r].body))
            /\ nextId' = nextId + 1
            /\ Reply(AfterSave(notifyOk, 201),
                     Delivered(notifyOk, NewBookingMail(inflight[r].body.roomId)))
            /\ UNCHANGED now

\* the rest of the handler: the booking is built and saved with no further read
createBookingSave(r, notifyOk) ==
    /\ r \in DOMAIN inflight
    /\ inflight[r].pc = "checked"
    /\ inflight' = [inflight EXCEPT ![r].pc = "done"]
    /\ bookings' = Insert(bookings, nextId,
                          NewBooking(inflight[r].actor, inflight[r].body))
    /\ nextId' = nextId + 1
    /\ Reply(AfterSave(notifyOk, 201),
                     Delivered(notifyOk, NewBookingMail(inflight[r].body.roomId)))
    /\ UNCHANGED now

RaceQuery == \E r \in 1..MaxReqs, actor \in ConflictActors, body \in RaceBodies :
                 createBookingQuery(r, actor, body) /\ UNCHANGED <<sliceVars, authVars>>

RaceSave == \E r \in 1..MaxReqs, notifyOk \in BOOLEAN :
                createBookingSave(r, notifyOk) /\ UNCHANGED <<sliceVars, authVars>>

RaceNext == RaceQuery \/ RaceSave

RaceSpec == Init /\ [][RaceNext]_vars

(* ------------------- the client's thunks, interleaved ------------------ *)

serverVars == <<bookings, nextId, now, resp, inflight, sent>>

Dispatch ==
    \E ty \in ThunkTypes, arg \in 0..MaxSliceIds :
        /\ (ty \in IdThunks) <=> (arg # 0)
        /\ dispatch(ty, arg)
        /\ UNCHANGED <<serverVars, authVars>>

Fulfil ==
    \E i \in DOMAIN thunks : \E payload \in FulfilledPayloads(thunks[i]) :
        settleFulfilled(i, payload) /\ UNCHANGED <<serverVars, authVars>>

Reject ==
    \E i \in DOMAIN thunks, message \in {Absent, <<"">>, <<"m">>} :
        settleRejected(i, message) /\ UNCHANGED <<serverVars, authVars>>

ClearError == clearBookingError /\ UNCHANGED <<serverVars, authVars>>

ClearSelected == clearSelectedBooking /\ UNCHANGED <<serverVars, authVars>>

SliceNext == Dispatch \/ Fulfil \/ Reject \/ ClearError \/ ClearSelected

SliceSpec == Init /\ [][SliceNext]_vars

(* ------------------------- password reset requests --------------------- *)

AuthEmails == {"", "nobody", "alice"}

\* the tokens a request may carry: none, one the server signed for alice at
\* some instant, or an unsigned copy
AuthTokens ==
    {Absent} \cup {<<Token("alice", t)>> : t \in Instants}
             \cup {<<Unsigned(Token("alice", 0))>>}

Forgot ==
    \E email \in AuthEmails, mailOk \in BOOLEAN :
        /\ forgotPassword(email, mailOk)
        /\ UNCHANGED <<bookings, nextId, now, inflight, sliceVars, clock, accepted>>

Reset ==
    \E token \in AuthTokens, password \in Passwords :
        /\ resetPassword(token, password)
        /\ UNCHANGED <<bookings, nextId, now, inflight, sliceVars, clock>>

\* time passes to a later instant
Tick ==
    \E t \in Instants :
        /\ t > clock
        /\ clock' = t
        /\ UNCHANGED <<serverVars, sliceVars, accounts, accepted>>

AuthNext == Forgot \/ Reset \/ Tick

AuthSpec == Init /\ [][AuthNext]_vars

(* ------------------------------- claims -------------------------------- *)

\* half-open overlap of [s, e) and [s2, e2), as the specification states it
HalfOpenOverlap(s, e, s2, e2) == s < e2 /\ s2 < e

Overlapping(a, b) ==
    HalfOpenOverlap(bookings[a].startTime, bookings[a].endTime,
                    bookings[b].startTime, bookings[b].endTime)

Live(id) == bookings[id].status # "cancelled"

\* C1: no two stored bookings on the same room, neither of them cancelled,
\* have overlapping windows (half-open semantics).
C1_NoRoomDoubleBooking ==
    \A a \in DOMAIN bookings, b \in DOMAIN bookings :
        (a # b /\ bookings[a].room = bookings[b].room /\ Live(a) /\ Live(b))
            => ~Overlapping(a, b)

\* C2: no equipment item and no staff member is referenced by two
\* non-cancelled bookings with overlapping windows.
C2_NoResourceDoubleBooking ==
    \A a \in DOMAIN bookings, b \in DOMAIN bookings :
        (a # b /\ Live(a) /\ Live(b) /\ Overlapping(a, b))
            => /\ Range(bookings[a].equipment) \cap Range(bookings[b].equipment) = {}
               /\ Range(bookings[a].staff) \cap Range(bookings[b].staff) = {}

\* C3: a request that has passed the availability queries persists its booking
\* as 'pending' at its save step whatever was stored since it read the store.
C3_SaveAfterQueryPersists ==
    [][\A r \in DOMAIN inflight :
          (inflight[r].pc = "checked" /\ inflight'[r].pc = "done")
              => \E id \in DOMAIN bookings' \ DOMAIN bookings :
                    /\ bookings'[id].status = "pending"
                    /\ bookings'[id].room = inflight[r].body.roomId
                    /\ bookings'[id].startTime = inflight[r].body.startTime
                    /\ bookings'[id].endTime = inflight[r].body.endTime]_vars

\* C3 witness: both requests are done and two pending bookings with
\* overlapping windows are stored on the same room.
C3_DoubleBooked ==
    /\ \A r \in 1..MaxReqs : r \in DOMAIN inflight /\ inflight[r].pc = "done"
    /\ \E a \in DOMAIN bookings, b \in DOMAIN bookings :
          /\ a # b
          /\ bookings[a].room = bookings[b].room
          /\ bookings[a].status = "pending" /\ bookings[b].status = "pending"
          /\ bookings[a].startTime < bookings[a].endTime
          /\ bookings[b].startTime < bookings[b].endTime
          /\ Overlapping(a, b)

\* C4: every stored booking has end_time > start_time (a request with
\* endTime <= startTime persists nothing).
C4_WindowsValid ==
    \A id \in DOMAIN bookings : bookings[id].endTime > bookings[id].startTime

\* C5: for a window createBooking accepted and the window of a stored
\* non-cancelled booking, the three-clause query matches exactly when the two
\* overlap half-open.
C5_QueryIsHalfOpenOverlap ==
    \A a \in DOMAIN bookings, b \in DOMAIN bookings :
        (a # b /\ Live(b))
            => (WindowQuery(DateOf(bookings[b].startTime), DateOf(bookings[b].endTime),
                            DateOf(bookings[a].startTime), DateOf(bookings[a].endTime))
                  <=> Overlapping(a, b))

\* C6: over the windows createBooking has persisted, the query is symmetric:
\* candidate W1 against stored W2 matches iff candidate W2 against stored W1 does.
C6_QuerySymmetric ==
    \A a \in DOMAIN bookings, b \in DOMAIN bookings :
        WindowQuery(DateOf(bookings[b].startTime), DateOf(bookings[b].endTime),
                    DateOf(bookings[a].startTime), DateOf(bookings[a].endTime))
          <=> WindowQuery(DateOf(bookings[a].startTime), DateOf(bookings[a].endTime),
                          DateOf(bookings[b].startTime), DateOf(bookings[b].endTime))

\* the request names existing resources, each once
WellFormed(body) ==
    /\ body.roomId \in Rooms
    /\ Range(body.equipmentIds) \subseteq EquipmentItems
    /\ Range(body.staffIds) \subseteq StaffRecords
    /\ Cardinality(Range(body.equipmentIds)) = Len(body.equipmentIds)
    /\ Cardinality(Range(body.staffIds)) = Len(body.staffIds)

\* a stored non-cancelled booking reserves the room, an equipment item or a
\* staff member of the request over an overlapping window
LiveOverlap(body) ==
    \E id \in DOMAIN bookings :
        /\ Live(id)
        /\ HalfOpenOverlap(body.startTime, body.endTime,
                           bookings[id].startTime, bookings[id].endTime)
        /\ \/ bookings[id].room = body.roomId
           \/ Range(bookings[id].equipment) \cap Range(body.equipmentIds) # {}
           \/ Range(bookings[id].staff) \cap Range(body.staffIds) # {}

\* C7: a createBooking request for existing room, equipment and staff persists
\* its booking exactly when no non-cancelled booking overlaps on one of them;
\* cancelled bookings never count.
C7_OnlyLiveBookingsConflict ==
    [][\A actor \in Users, body \in LookupBodies, notifyOk \in BOOLEAN :
          (WellFormed(body) /\ createBooking(actor, body, notifyOk))
              => (DOMAIN bookings' # DOMAIN bookings <=> ~LiveOverlap(body))]_vars

\* C8: every stored total_amount is the room's hourly rate times the window
\* length in hours (a slot is half an hour), and is never negative.
C8_TotalAmount ==
    \A id \in DOMAIN bookings :
        /\ 2 * bookings[id].totalAmount =
               HourlyRate[bookings[id].room] * (bookings[id].endTime - bookings[id].startTime)
        /\ bookings[id].totalAmount >= 0

\* C9: no request changes the total_amount, room, client, start time or end
\* time of a booking that stays stored.
C9_CreationFieldsFrozen ==
    [][\A id \in DOMAIN bookings \cap DOMAIN bookings' :
          /\ bookings'[id].totalAmount = bookings[id].totalAmount
          /\ bookings'[id].room = bookings[id].room
          /\ bookings'[id].client = bookings[id].client
          /\ bookings'[id].startTime = bookings[id].startTime
          /\ bookings'[id].endTime = bookings[id].endTime]_vars

\* C9 witness: a booking that the owner has updated (staff, notes) and
\* cancelled through cancelBooking still carries its creation amount.
C9_UpdatedAndCancelled ==
    \E id \in DOMAIN bookings :
        /\ bookings[id].status = "cancelled"
        /\ bookings[id].cancelledBy = "olga"
        /\ bookings[id].notes = "n"
        /\ bookings[id].staff = <<"s1">>
        /\ bookings[id].totalAmount = TotalAmount(bookings[id].room,
                                                  bookings[id].startTime,
                                                  bookings[id].endTime)
        /\ bookings[id].totalAmount > 0

\* C10: every booking createBooking inserts is 'pending' and its client is the
\* requesting actor, whatever status or client the body carries.
C10_CreatedPendingForActor ==
    [][DOMAIN bookings' \ DOMAIN bookings # {}
          => \A actor \in Users, body \in LookupBodies, notifyOk \in BOOLEAN :
                createBooking(actor, body, notifyOk)
                    => \A id \in DOMAIN bookings' \ DOMAIN bookings :
                          /\ bookings'[id].status = "pending"
                          /\ bookings'[id].client = actor]_vars

\* C10 witness: a staff user's request has just been answered 201 and the
\* stored booking is pending with that user as client.
C10_StaffCreatedPending ==
    /\ resp = Response(201, "ok")
    /\ \E id \in DOMAIN bookings :
          bookings[id].client = "sam" /\ bookings[id].status = "pending"

\* the actor is the booking's client, the owner of the studio of its room, or
\* a staff member of that studio
Permitted(b, actor) ==
    IsClient(b, actor) \/ IsStudioOwner(b, actor) \/ IsStaff(b, actor)

\* C11: confirmBooking by the studio's owner or a staff member on a booking
\* that is not 'pending' fails and leaves the stored bookings unchanged.
C11_ConfirmOnlyFromPending ==
    [][\A actor \in Users, id \in DOMAIN bookings, notifyOk \in BOOLEAN :
          (/\ confirmBooking(actor, id, notifyOk)
           /\ IsStudioOwner(bookings[id], actor) \/ IsStaff(bookings[id], actor)
           /\ bookings[id].status # "pending")
              => (bookings' = bookings /\ resp'.status # 200)]_vars

\* C12: once a booking is 'cancelled' or 'completed' no request changes its
\* status again.
C12_TerminalStatuses ==
    [][\A id \in DOMAIN bookings \cap DOMAIN bookings' :
          bookings[id].status \in {"cancelled", "completed"}
              => bookings'[id].status = bookings[id].status]_vars

\* C13: a confirmBooking request from anyone but the studio's owner or a staff
\* member of the studio is answered 403 with the bookings unchanged, and a
\* status becomes 'confirmed' only through a request of such an owner or staff
\* member.
C13_ConfirmOnlyByOwnerOrStaff ==
    [][/\ \A actor \in Users, id \in DOMAIN bookings, notifyOk \in BOOLEAN :
             (/\ confirmBooking(actor, id, notifyOk)
              /\ ~IsStudioOwner(bookings[id], actor)
              /\ ~IsStaff(bookings[id], actor))
                 => (resp'.status = 403 /\ bookings' = bookings)
       /\ \A id \in DOMAIN bookings \cap DOMAIN bookings' :
             (bookings'[id].status = "confirmed" /\ bookings[id].status # "confirmed")
                 => \E actor \in Users :
                       /\ IsStudioOwner(bookings[id], actor) \/ IsStaff(bookings[id], actor)
                       /\ \/ \E notifyOk \in BOOLEAN : confirmBooking(actor, id, notifyOk)
                          \/ \E body \in UpdateBodies : updateBooking(actor, id, body)]_vars

\* an update request that carries no field
NoChanges ==
    [notes |-> Absent, equipmentIds |-> Absent, status |-> Absent, staffIds |-> Absent]

\* C14: on an existing booking, getBookingById, updateBooking and cancelBooking
\* serve the actor exactly when it is the client, the studio's owner or a staff
\* member of the studio; any other actor is answered 403 (never 404) and the
\* bookings stay unchanged.
C14_AccessByRelationship ==
    [][\A actor \in Users, id \in DOMAIN bookings :
          LET ok == Permitted(bookings[id], actor) IN
          /\ getBookingById(actor, id)
                => resp'.status = (IF ok THEN 200 ELSE 403)
          /\ updateBooking(actor, id, NoChanges)
                => IF ok THEN resp'.status \in {200, 400}
                         ELSE resp'.status = 403 /\ bookings' = bookings
          /\ \A body \in CancelBodies, notifyOk \in BOOLEAN :
                cancelBooking(actor, id, body, notifyOk)
                   => IF ok THEN bookings'[id].status = "cancelled"
                            ELSE resp'.status = 403 /\ bookings' = bookings]_vars

\* C15: cancelBooking by the booking's client, who is neither owner nor staff
\* of the studio, leaves the status of a booking that is not 'pending' as it
\* was.
C15_ClientCancelOnlyPending ==
    [][\A actor \in Users, id \in DOMAIN bookings,
          body \in CancelBodies, notifyOk \in BOOLEAN :
          (/\ cancelBooking(actor, id, body, notifyOk)
           /\ IsClient(bookings[id], actor)
           /\ ~IsStudioOwner(bookings[id], actor)
           /\ userType[actor] # "staff"
           /\ bookings[id].status # "pending")
              => bookings'[id].status = bookings[id].status]_vars

SameOutside(b, c, fields) == \A f \in DOMAIN b \ fields : c[f] = b[f]

\* the answer to a client's update of a booking that is not 'pending'
UpdateRejected == Response(400, "Cannot update a confirmed or cancelled booking")

C18_CancelIdempotent ==
    [][\A actor \in Users, id \in DOMAIN bookings,
          body \in CancelBodies, notifyOk \in BOOLEAN :
          (cancelBooking(actor, id, body, notifyOk) /\ bookings[id].status = "cancelled")
              => bookings'[id] = bookings[id]]_vars

\* C19: a booking is 'cancelled' exactly when its cancellation reason,
\* cancelling user and cancellation time are recorded.
C19_CancelledIffMetadata ==
    \A id \in DOMAIN bookings :
        bookings[id].status = "cancelled"
            <=> (/\ bookings[id].cancellationReason # ""
                 /\ bookings[id].cancelledBy # ""
                 /\ bookings[id].cancelledAt # <<>>)

\* C20: a createBooking request that passes every check and whose owner
\* notification fails ends 500 with the new booking stored and 'pending'.
C20_NoRollbackOnNotifyFailure ==
    [][(nextId' # nextId /\ resp'.status = 500)
          => \A actor \in Users, body \in LookupBodies :
                (createBooking(actor, body, FALSE) /\ CreateChecks(bookings, body) = Pass)
                   => /\ nextId \in DOMAIN bookings'
                      /\ bookings'[nextId] = NewBooking(actor, body)
                      /\ bookings'[nextId].status = "pending"]_vars

\* the request ended 500 and the booking it saved is stored, pending
C20_SavedDespiteFailure ==
    /\ resp = Response(500, "Server error")
    /\ nextId = 2
    /\ 1 \in DOMAIN bookings
    /\ bookings[1].status = "pending"
    /\ bookings[1].client = "alice"

\* C21: whenever createBooking has persisted a booking, the caller receives
\* 201, whether or not the notification was delivered.
C21_PersistedMeansCreated ==
    [][DOMAIN bookings' \ DOMAIN bookings # {} => resp'.status = 201]_vars

NotFoundMessages ==
    {"One or more equipment items not found", "One or more staff members not found"}

\* C22: in every reachable store the checks of createBooking answer in order:
\* an unknown room gives 404, a room conflict is reported before equipment is
\* looked at, an unknown equipment id gives the not-found validation error,
\* and a request whose ids all exist is not answered 'not found'.
C22_ChecksInOrder ==
    \A body \in LookupBodies :
        LET r == CreateChecks(bookings, body)
            roomKnown == body.roomId \in Rooms
            conflict == roomKnown /\ RoomConflict(bookings, body.roomId,
                                                  body.startTime, body.endTime)
            equipmentExists == Range(body.equipmentIds) \subseteq EquipmentItems
            staffExists == Range(body.staffIds) \subseteq StaffRecords
        IN  /\ (body.roomId # "" /\ ~roomKnown) => r = Response(404, "Room not found")
            /\ conflict => r = Response(400, "Room is not available for the requested time")
            /\ (roomKnown /\ ~conflict /\ ~equipmentExists)
                  => r = Response(400, "One or more equipment items not found")
            /\ (equipmentExists /\ staffExists) => r.message \notin NotFoundMessages

\* C24: cancelBooking by the booking's client sets the status to 'cancelled'
\* and records the client as the cancelling user, whatever the status was.
C24_ClientCancelsFromAnyStatus ==
    [][\A actor \in Users, id \in DOMAIN bookings,
          body \in CancelBodies, notifyOk \in BOOLEAN :
          (cancelBooking(actor, id, body, notifyOk) /\ IsClient(bookings[id], actor))
              => /\ bookings'[id].status = "cancelled"
                 /\ bookings'[id].cancelledBy = actor]_vars

\* C25: an updateBooking request by an owner or staff member that changes the
\* status of a booking delivers a mail to the booking's client.
C25_StatusChangeNotifiesClient ==
    [][\A id \in DOMAIN bookings \cap DOMAIN bookings' :
          bookings'[id].status # bookings[id].status
             => \A actor \in Users, body \in UpdateBodies :
                   (updateBooking(actor, id, body) /\ ~IsClient(bookings[id], actor))
                      => (sent' # NoMail /\ sent'[1].to = bookings[id].client)]_vars

\* C26: a request answered 400, 403, 404 or 500 leaves the stored bookings as
\* they were.
C26_ErrorsChangeNothing ==
    [][resp'.status \in {400, 403, 404, 500} => bookings' = bookings]_vars

\* C23: a listing answered to an actor holds only bookings of which the actor
\* is the client, the studio's owner or a staff member of the studio.
C23_ListingDisclosesNothing ==
    [][\A actor \in Users :
          ((getAllBookings(actor) \/ getUserBookings(actor)) /\ resp'.status = 200)
              => \A id \in Range(resp'.bookings) : Permitted(bookings[id], actor)]_vars

\* C27: isLoading is true exactly when some dispatched thunk has not settled.
C27_LoadingWhilePending ==
    slice.isLoading <=> \E i \in DOMAIN thunks : thunks[i].status = "pending"

\* C28: resetPassword accepts a token only if it has not accepted that token
\* before, the token is the one the latest forgotPassword stored for the user,
\* and less than an hour has passed since it was issued.
C28_TokenSingleUse ==
    [][\A token \in AuthTokens, password \in Passwords :
          (resetPassword(token, password) /\ resp'.status = 200)
              => /\ token[1] \notin accepted
                 /\ accounts[token[1].id].resetPasswordToken = token
                 /\ clock < token[1].iat + Hour]_vars

====
